---------------------------- MODULE Spec2Model ----------------------------
(***************************************************************************)
(* State-machine model of DataBase/Table.py: field descriptors, the       *)
(* _TableMeta type-construction hook, Table.__init__ and                   *)
(* Table.__getattribute__.                                                 *)
(*                                                                         *)
(* Python objects are numbered by creation order: objs[i] is the i-th      *)
(* field descriptor object, classes[c] the c-th class object (1 = Table).  *)
(* Two names holding the same number hold the same object.                 *)
(***************************************************************************)
EXTENDS Integers, Sequences, FiniteSets, TLC

VARIABLES objs,      \* the _Field objects created so far
          classes,   \* the classes created by _TableMeta so far
          inst,      \* the instance bound by the latest constructor call
          attempts,  \* history: constructor calls made on each class
          result     \* the latest operation, its inputs and its outcome

vars == <<objs, classes, inst, attempts, result>>

-----------------------------------------------------------------------------
(* Bounds of the model *)

MaxFields == 1      \* descriptor objects created besides Table._id
MaxTypes == 1       \* classes defined besides Table (full program)
MaxHierarchy == 4   \* classes defined besides Table (schema-only runs)
MaxBases == 2       \* bases listed in one class statement
MaxCount == 2       \* _count never grows beyond this in the model

-----------------------------------------------------------------------------
(* Python values *)

None == "None"

ScalarKinds == {"TextField", "IntegerField", "RealField", "DateField",
                "DateTimeField"}

RelationKinds == {"OneToOneField", "OneToManyField", "ManyToOneField",
                  "ManyToManyField"}

Kinds == ScalarKinds \cup RelationKinds

\* isinstance(field, _ForeignField)
IsForeign(field) == field.cls \in RelationKinds

Defaults == {None, "d"}        \* default= arguments of a descriptor
Supplied == {None, "v"}        \* values a caller passes to a constructor
BodyNames == {"n"}             \* attribute names a class body assigns
KwNames == {"_id", "n", "x"}   \* keyword names a caller passes
ReadNames == {"_id", "n", "x"} \* attribute names read on an instance
ConstVal == 5                  \* a non-field class attribute's value
NoAttr == -1                   \* the name is in no class dict of the mro
NoClass == 0                   \* _source_cls is None / no class
Failed == -1                   \* no consistent method resolution order

Range(s) == {s[i] : i \in DOMAIN s}

\* {**f, **g}
Merge(f, g) == [k \in DOMAIN f \cup DOMAIN g |->
                  IF k \in DOMAIN g THEN g[k] ELSE f[k]]

\* d[k] = v on a dict
SetKey(d, k, v) == [x \in DOMAIN d \cup {k} |-> IF x = k THEN v ELSE d[x]]

-----------------------------------------------------------------------------
(* Field descriptors *)

\* _Field.__init__ as reached from the five scalar classes
ScalarField(kind, default, allow_null, unique) ==
    [cls |-> kind, default |-> default, allow_null |-> allow_null,
     unique |-> unique, _other_cls |-> NoClass, _source_cls |-> NoClass]

\* _ForeignField.__init__ as reached from the four relation classes
ForeignField(kind, other, default, allow_null) ==
    [cls |-> kind, default |-> default, allow_null |-> allow_null,
     unique |-> TRUE, _other_cls |-> other, _source_cls |-> NoClass]

\* the check that ends OneToOneField.__init__ and its three siblings
RelationInitRaisesNoManyToMany(kind, default, allow_null) ==
    kind # "ManyToManyField" /\ ~allow_null /\ default = None

RelationInitRaises(kind, default, allow_null) ==
    ~allow_null /\ default = None

\* _ForeignField.set_source on the object numbered f
set_source(heap, f, source) == [heap EXCEPT ![f]._source_cls = source]

-----------------------------------------------------------------------------
(* Classes *)

\* the first class of c's __mro__ whose own dict holds name
RECURSIVE LookUp(_, _, _)
LookUp(cls, mro, name) ==
    IF mro = <<>> THEN NoAttr
    ELSE IF name \in DOMAIN cls[Head(mro)].dict
         THEN cls[Head(mro)].dict[name]
         ELSE LookUp(cls, Tail(mro), name)

\* getattr(c, name) for a name held in class dicts
GetClassAttr(cls, c, name) == LookUp(cls, cls[c].mro, name)

\* C3 linearisation, as type.__new__ computes __mro__
RemoveHead(s, h) == IF s # <<>> /\ Head(s) = h THEN Tail(s) ELSE s

RECURSIVE C3Merge(_)
C3Merge(seqs) ==
    LET live == SelectSeq(seqs, LAMBDA s : s # <<>>)
        good == {i \in DOMAIN live :
                   \A j \in DOMAIN live : Head(live[i]) \notin Range(Tail(live[j]))}
    IN IF live = <<>> THEN <<>>
       ELSE IF good = {} THEN <<Failed>>
       ELSE LET i == CHOOSE m \in good : \A o \in good : m <= o
                h == Head(live[i])
            IN <<h>> \o C3Merge([j \in DOMAIN live |-> RemoveHead(live[j], h)])

Linearise(cls, self, bases) ==
    <<self>> \o C3Merge([i \in DOMAIN bases |-> cls[bases[i]].mro] \o <<bases>>)

\* base_attrs of _TableMeta.__new__: the bases' _fields merged left to right
RECURSIVE BaseAttrs(_, _)
BaseAttrs(cls, bases) ==
    IF bases = <<>> THEN <<>>
    ELSE Merge(BaseAttrs(cls, SubSeq(bases, 1, Len(bases) - 1)),
               cls[bases[Len(bases)]]._fields)

\* a field object as a class-body value, and a non-field value
FieldAttr(f) == [isField |-> TRUE, ref |-> f]
PlainAttr(v) == [isField |-> FALSE, ref |-> v]

\* new_attrs["_fields"]: {**base_attrs, **attrs} filtered by isinstance _Field
ResolveFields(base_attrs, attrs) ==
    LET all == Merge([k \in DOMAIN base_attrs |-> FieldAttr(base_attrs[k])], attrs)
        keep == {k \in DOMAIN all : all[k].isField}
    IN [k \in keep |-> all[k].ref]

\* the other entries of new_attrs: the non-field attributes of the body
ClassDict(attrs) ==
    LET keep == {k \in DOMAIN attrs : ~attrs[k].isField /\ k # "_fields"}
    IN [k \in keep |-> attrs[k].ref]

\* the loop that ends _TableMeta.__new__
RECURSIVE BindSourcesTo(_, _, _)
BindSourcesTo(heap, fields, source) ==
    IF fields = {} THEN heap
    ELSE LET f == CHOOSE x \in fields : TRUE
             next == IF IsForeign(heap[f]) THEN set_source(heap, f, source) ELSE heap
         IN BindSourcesTo(next, fields \ {f}, source)

BindSourcesOwnOnly(heap, fields, attrs, source) ==
    BindSourcesTo(heap, {attrs[k].ref : k \in {x \in DOMAIN attrs : attrs[x].isField}},
                  source)

BindSources(heap, fields, attrs, source) ==
    BindSourcesTo(heap, Range(fields), source)

\* the class object type.__new__ returns
NewClass(bases, mro, fields, attrs) ==
    [bases |-> bases, mro |-> mro, _fields |-> fields, dict |-> ClassDict(attrs),
     attrs |-> attrs]

\* class Table(metaclass=_TableMeta): its body and the class it becomes
IdField == ScalarField("IntegerField", None, TRUE, TRUE)

TableAttrs == [k \in {"_id", "_count"} |->
                 IF k = "_id" THEN FieldAttr(1) ELSE PlainAttr(0)]

TableClass == NewClass(<<>>, <<1>>, ResolveFields(<<>>, TableAttrs), TableAttrs)

-----------------------------------------------------------------------------
(* Instances *)

\* _FieldValue.__init__ / ForeignFieldValue.__init__: the value kept and
\* whether the constructor raises NullConstraintException
FieldValueDefaultForNull(field, value, use_default) ==
    LET kept == IF use_default \/ value = None THEN field.default ELSE value
    IN [value |-> kept, raises |-> kept = None /\ ~field.allow_null]

FieldValue(field, value, use_default) ==
    LET kept == IF ~use_default THEN value ELSE field.default
    IN [value |-> kept, raises |-> kept = None /\ ~field.allow_null]

\* the object setattr stores for one field in the loop of Table.__init__
Container(heap, f, name, kwargs) ==
    LET made == IF name \in DOMAIN kwargs
                THEN FieldValue(heap[f], kwargs[name], FALSE)
                ELSE FieldValue(heap[f], None, TRUE)
    IN [wrapper |-> IF IsForeign(heap[f]) THEN "ForeignFieldValue" ELSE "_FieldValue",
        _field |-> f, value |-> made.value, raises |-> made.raises]

NoInstance == [cls |-> NoClass, attrs |-> <<>>]

\* self.__class__._count += 1
Counted(cls, c) ==
    [cls EXCEPT ![c].dict = SetKey(@, "_count", GetClassAttr(cls, c, "_count") + 1)]

\* how Table.__init__ ends: None when it returns, else the exception raised
InitOutcome(heap, fields, nargs, kwargs) ==
    IF nargs # 0 THEN "AttributeError"
    ELSE IF \E k \in DOMAIN fields : Container(heap, fields[k], k, kwargs).raises
         THEN "NullConstraintException"
    ELSE IF DOMAIN kwargs \ DOMAIN fields # {}
         THEN "TypeError"    \* kwargs.keys()[0]: dict_keys is not subscriptable
    ELSE None

\* Table.__getattribute__: object.__getattribute__ finds the instance
\* attribute first (class dicts hold no descriptors), then the class dicts
GetAttribute(cls, instance, item) ==
    IF item \in DOMAIN instance.attrs
    THEN LET held == instance.attrs[item]
         IN IF held.wrapper = "_FieldValue"
            THEN [exc |-> None, wrapped |-> FALSE, value |-> held.value, const |-> NoAttr]
            ELSE [exc |-> None, wrapped |-> TRUE, value |-> held.value, const |-> NoAttr]
    ELSE LET found == GetClassAttr(cls, instance.cls, item)
         IN IF found = NoAttr
            THEN [exc |-> "AttributeError", wrapped |-> FALSE, value |-> None,
                  const |-> NoAttr]
            ELSE [exc |-> None, wrapped |-> FALSE, value |-> None, const |-> found]

-----------------------------------------------------------------------------
(* The operations *)

Blank == [op |-> "import", cls |-> NoClass, exc |-> None, kind |-> None,
          default |-> None, allow_null |-> TRUE, nargs |-> 0, kwargs |-> <<>>,
          item |-> None, wrapped |-> FALSE, value |-> None, const |-> NoAttr]

\* the module has been imported: Table exists, nothing else does
Init ==
    /\ objs = <<IdField>>
    /\ classes = <<TableClass>>
    /\ inst = NoInstance
    /\ attempts = <<0>>
    /\ result = Blank

\* kind(...) for one of the nine descriptor classes
NewField(kind, other, default, allow_null, unique) ==
    LET raises == kind \in RelationKinds /\ RelationInitRaises(kind, default, allow_null)
        made == IF kind \in RelationKinds
                THEN ForeignField(kind, other, default, allow_null)
                ELSE ScalarField(kind, default, allow_null, unique)
    IN /\ objs' = IF raises THEN objs ELSE Append(objs, made)
       /\ result' = [Blank EXCEPT !.op = "NewField", !.kind = kind,
                       !.default = default, !.allow_null = allow_null,
                       !.exc = IF raises THEN "NullConstraintException" ELSE None]
       /\ UNCHANGED <<classes, inst, attempts>>

\* a class statement: _TableMeta.__new__(mcs, name, bases, attrs)
DefineType(bases, attrs) ==
    LET self == Len(classes) + 1
        fields == ResolveFields(BaseAttrs(classes, bases), attrs)
        mro == Linearise(classes, self, bases)
        raises == Failed \in Range(mro)    \* type.__new__ raises TypeError
    IN /\ classes' = IF raises THEN classes
                     ELSE Append(classes, NewClass(bases, mro, fields, attrs))
       /\ objs' = IF raises THEN objs ELSE BindSources(objs, fields, attrs, self)
       /\ attempts' = IF raises THEN attempts ELSE Append(attempts, 0)
       /\ result' = [Blank EXCEPT !.op = "DefineType",
                       !.cls = IF raises THEN NoClass ELSE self,
                       !.exc = IF raises THEN "TypeError" ELSE None]
       /\ UNCHANGED inst

\* Table.__init__ with the counter incremented after the checks
ConstructCountsLast(c, nargs, kwargs) ==
    LET fields == classes[c]._fields
        exc == InitOutcome(objs, fields, nargs, kwargs)
        made == [k \in DOMAIN fields |->
                   LET held == Container(objs, fields[k], k, kwargs)
                   IN [wrapper |-> held.wrapper, _field |-> held._field,
                       value |-> held.value]]
    IN /\ classes' = IF exc = None THEN Counted(classes, c) ELSE classes
       /\ attempts' = [attempts EXCEPT ![c] = @ + 1]
       /\ inst' = IF exc = None THEN [cls |-> c, attrs |-> made] ELSE NoInstance
       /\ result' = [Blank EXCEPT !.op = "Construct", !.cls = c, !.exc = exc,
                       !.nargs = nargs, !.kwargs = kwargs]
       /\ UNCHANGED objs

\* c(*args, **kwargs): Table.__init__
Construct(c, nargs, kwargs) ==
    LET fields == classes[c]._fields
        exc == InitOutcome(objs, fields, nargs, kwargs)
        made == [k \in DOMAIN fields |->
                   LET held == Container(objs, fields[k], k, kwargs)
                   IN [wrapper |-> held.wrapper, _field |-> held._field,
                       value |-> held.value]]
    IN /\ classes' = Counted(classes, c)
       /\ attempts' = [attempts EXCEPT ![c] = @ + 1]
       /\ inst' = IF exc = None THEN [cls |-> c, attrs |-> made] ELSE NoInstance
       /\ result' = [Blank EXCEPT !.op = "Construct", !.cls = c, !.exc = exc,
                       !.nargs = nargs, !.kwargs = kwargs]
       /\ UNCHANGED objs

\* inst.item: Table.__getattribute__
Read(item) ==
    LET got == GetAttribute(classes, inst, item)
    IN /\ result' = [Blank EXCEPT !.op = "Read", !.cls = inst.cls, !.item = item,
                       !.exc = got.exc, !.wrapped = got.wrapped,
                       !.value = got.value, !.const = got.const]
       /\ UNCHANGED <<objs, classes, inst, attempts>>

-----------------------------------------------------------------------------
(* The inputs the model draws *)

BaseLists == UNION {[1..n -> 1..Len(classes)] : n \in 1..MaxBases}

BodyValues == {FieldAttr(f) : f \in 2..Len(objs)} \cup {PlainAttr(ConstVal)}

Bodies == UNION {[D -> BodyValues] : D \in SUBSET BodyNames}

KwArgs == UNION {[D -> Supplied] : D \in SUBSET KwNames}

\* a call that raises creates no object, so only the others are bounded
DoNewField ==
    \E kind \in Kinds, default \in Defaults, allow_null \in BOOLEAN :
      /\ \/ Len(objs) <= MaxFields
         \/ kind \in RelationKinds /\ RelationInitRaises(kind, default, allow_null)
      /\ NewField(kind, 1, default, allow_null, FALSE)

DoDefineType ==
    /\ Len(classes) <= MaxTypes
    /\ \E bases \in BaseLists, attrs \in Bodies : DefineType(bases, attrs)

DoConstruct ==
    \E c \in 1..Len(classes), nargs \in {0, 1}, kwargs \in KwArgs :
      /\ GetClassAttr(classes, c, "_count") < MaxCount
      /\ Construct(c, nargs, kwargs)

DoRead ==
    /\ inst.cls # NoClass
    /\ \E item \in ReadNames : Read(item)

Next == DoNewField \/ DoDefineType \/ DoConstruct \/ DoRead

Spec == Init /\ [][Next]_vars

-----------------------------------------------------------------------------
(* Schema-only runs: a pool of descriptors exists, classes are defined *)

InitSchema ==
    /\ objs \in {<<IdField, ForeignField(kind, 1, None, TRUE),
                   ScalarField("TextField", "d", FALSE, FALSE)>> :
                 kind \in RelationKinds}
    /\ classes = <<TableClass>>
    /\ inst = NoInstance
    /\ attempts = <<0>>
    /\ result = Blank

DoDefineHierarchy ==
    /\ Len(classes) <= MaxHierarchy
    /\ \E bases \in BaseLists, attrs \in Bodies : DefineType(bases, attrs)

NextSchema == DoDefineHierarchy

SpecSchema == InitSchema /\ [][NextSchema]_vars

-----------------------------------------------------------------------------
(* Vocabulary of the properties *)

Fields(c) == classes[c]._fields

\* the class statement of c assigns a field descriptor to n
DeclaresField(c, n) ==
    n \in DOMAIN classes[c].attrs /\ classes[c].attrs[n].isField

\* c and every class c inherits from
Ancestry(c) == Range(classes[c].mro)

CountOn(cls, c) == GetClassAttr(cls, c, "_count")

\* the value Table.__init__ is to keep for field n of the latest call
Resolved(c, n) ==
    IF n \in DOMAIN result.kwargs THEN result.kwargs[n] ELSE objs[Fields(c)[n]].default

NullViolation(c) ==
    \E n \in DOMAIN Fields(c) :
      Resolved(c, n) = None /\ ~objs[Fields(c)[n]].allow_null

\* a descriptor that forbids null and has no default
Defaultless(field) == ~field.allow_null /\ field.default = None

-----------------------------------------------------------------------------
(* Properties *)

\* C1: the resolved field set of every type contains every field name of
\* the resolved field set of each of its ancestors, and a name the type
\* itself declares as a field maps to the type's own descriptor.
C1_FieldSetCoversAncestors ==
    \A c \in DOMAIN classes :
      /\ \A a \in Ancestry(c) : DOMAIN Fields(a) \subseteq DOMAIN Fields(c)
      /\ \A n \in DOMAIN classes[c].attrs :
           DeclaresField(c, n) =>
             n \in DOMAIN Fields(c) /\ Fields(c)[n] = classes[c].attrs[n].ref

\* C2: reading a field name on a constructed instance returns the wrapped
\* value of its container, never the container, whatever the field's kind;
\* reading a non-field attribute returns the class attribute unchanged.
C2_ReadUnwraps ==
    result.op = "Read" =>
      IF result.item \in DOMAIN Fields(inst.cls)
      THEN /\ result.exc = None
           /\ ~result.wrapped
           /\ result.value = inst.attrs[result.item].value
      ELSE GetClassAttr(classes, inst.cls, result.item) # NoAttr =>
             /\ result.exc = None
             /\ ~result.wrapped
             /\ result.const = GetClassAttr(classes, inst.cls, result.item)

\* C3: a constructor call with no positional argument and only known field
\* names resolves every field to the caller's value when supplied (a
\* supplied null is kept) and to the default when omitted; it raises the
\* null-constraint exception exactly when some resolved value is null where
\* null is forbidden, and otherwise returns an instance whose scalar fields
\* read back as their resolved values.
C3_ConstructResolves ==
    ( /\ result.op = "Construct"
      /\ result.nargs = 0
      /\ DOMAIN result.kwargs \subseteq DOMAIN Fields(result.cls) ) =>
      LET c == result.cls
      IN /\ result.exc = "NullConstraintException" <=> NullViolation(c)
         /\ NullViolation(c) => inst = NoInstance
         /\ ~NullViolation(c) =>
              /\ result.exc = None
              /\ inst.cls = c
              /\ DOMAIN inst.attrs = DOMAIN Fields(c)
              /\ \A n \in DOMAIN Fields(c) :
                   ~IsForeign(objs[Fields(c)[n]]) =>
                     LET got == GetAttribute(classes, inst, n)
                     IN /\ got.exc = None
                        /\ ~got.wrapped
                        /\ got.value = Resolved(c, n)

\* a call that omits a scalar field which forbids null and has a default,
\* and passes a null for a field that allows it, has returned an instance
C3_Witness ==
    /\ result.op = "Construct"
    /\ result.nargs = 0
    /\ result.exc = None
    /\ inst.cls = result.cls
    /\ "_id" \in DOMAIN result.kwargs
    /\ result.kwargs["_id"] = None
    /\ \E n \in DOMAIN Fields(result.cls) :
         /\ n \notin DOMAIN result.kwargs
         /\ ~IsForeign(objs[Fields(result.cls)[n]])
         /\ ~objs[Fields(result.cls)[n]].allow_null
         /\ inst.attrs[n].value = "d"

\* C4: a call with no positional argument whose known fields all pass the
\* null check and which names an unknown keyword raises AttributeError (the
\* kind the code uses for unknown fields) and returns no instance.
C4_UnknownKeywordError ==
    ( /\ result.op = "Construct"
      /\ result.nargs = 0
      /\ ~NullViolation(result.cls)
      /\ DOMAIN result.kwargs \ DOMAIN Fields(result.cls) # {} ) =>
      /\ result.exc = "AttributeError"
      /\ inst = NoInstance

\* C5: creating a relation descriptor that forbids null and has no default
\* raises, for each of the four relation kinds, so no such descriptor
\* exists and no type holds one; creating any scalar descriptor succeeds,
\* a type holding a defaultless scalar is defined without a constraint
\* error, and the missing default shows only when a constructor call
\* omits the field: that call raises the null-constraint exception.
C5_DefaultCheckAsymmetry ==
    /\ result.op = "NewField" =>
         /\ result.exc = "NullConstraintException" <=>
              ( /\ result.kind \in RelationKinds
                /\ ~result.allow_null
                /\ result.default = None )
         /\ result.exc # "NullConstraintException" =>
              /\ result.exc = None
              /\ objs[Len(objs)].cls = result.kind
              /\ objs[Len(objs)].default = result.default
              /\ objs[Len(objs)].allow_null = result.allow_null
    /\ \A f \in DOMAIN objs : IsForeign(objs[f]) => ~Defaultless(objs[f])
    /\ \A c \in DOMAIN classes : \A n \in DOMAIN Fields(c) :
         IsForeign(objs[Fields(c)[n]]) => ~Defaultless(objs[Fields(c)[n]])
    /\ result.op = "DefineType" => result.exc # "NullConstraintException"
    /\ ( /\ result.op = "Construct"
         /\ result.nargs = 0
         /\ \E n \in DOMAIN Fields(result.cls) :
              /\ ~IsForeign(objs[Fields(result.cls)[n]])
              /\ Defaultless(objs[Fields(result.cls)[n]])
              /\ n \notin DOMAIN result.kwargs ) =>
         /\ result.exc = "NullConstraintException"
         /\ inst = NoInstance

\* creating a defaultless many-to-many descriptor has just raised, in a
\* program where a defined type holds a defaultless scalar descriptor and
\* a constructor has been called on that type
C5_Witness ==
    /\ result.op = "NewField"
    /\ result.kind = "ManyToManyField"
    /\ result.exc = "NullConstraintException"
    /\ \E c \in DOMAIN classes : \E n \in DOMAIN Fields(c) :
         /\ ~IsForeign(objs[Fields(c)[n]])
         /\ Defaultless(objs[Fields(c)[n]])
         /\ attempts[c] > 0

\* C6: right after a type S is defined, every relation descriptor of S's
\* resolved field set, inherited ones included, has S as its source.
C6_SourceIsNewType ==
    (result.op = "DefineType" /\ result.exc = None) =>
      /\ result.cls = Len(classes)
      /\ \A n \in DOMAIN Fields(result.cls) :
           IsForeign(objs[Fields(result.cls)[n]]) =>
             objs[Fields(result.cls)[n]]._source_cls = result.cls

\* the type just defined inherits, without redeclaring it, a relation
\* field that an ancestor declares
C6_Witness ==
    /\ result.op = "DefineType"
    /\ result.exc = None
    /\ \E n \in DOMAIN Fields(result.cls) :
         /\ IsForeign(objs[Fields(result.cls)[n]])
         /\ n \notin DOMAIN classes[result.cls].attrs
         /\ \E a \in Ancestry(result.cls) \ {result.cls} :
              /\ DeclaresField(a, n)
              /\ classes[a].attrs[n].ref = Fields(result.cls)[n]
         /\ objs[Fields(result.cls)[n]]._source_cls = result.cls

\* C7: every constructor call on a type raises the counter read on that
\* type by exactly one, whether the call returns or raises.
C7_EveryCallCounts ==
    [][\A c \in DOMAIN classes :
         (result'.op = "Construct" /\ result'.cls = c
            /\ attempts' = [attempts EXCEPT ![c] = @ + 1]) =>
           /\ result'.exc \in {None, "AttributeError", "NullConstraintException",
                               "TypeError"}
           /\ CountOn(classes', c) = CountOn(classes, c) + 1]_vars

\* a call that raised on a positional argument has left the counter at two
C7_Witness ==
    /\ result.op = "Construct"
    /\ result.exc = "AttributeError"
    /\ CountOn(classes, result.cls) = 2
    /\ attempts[result.cls] = 2

\* C8: when a type X of T's ancestry and an ancestor Y of X both declare
\* the field name n, T's resolved field set maps n to a descriptor
\* declared by X or by a type below X, never to the one only Y declares.
\* (Stated for the types whose field set holds n, so that a violation is
\* a wrong descriptor and not the missing name of C1.)
C8_SpecificSupersedes ==
    \A t \in DOMAIN classes : \A x \in Ancestry(t) : \A y \in Ancestry(x) \ {x} :
      \A n \in DOMAIN Fields(t) :
        (DeclaresField(x, n) /\ DeclaresField(y, n)) =>
          Fields(t)[n] \in {classes[z].attrs[n].ref :
                              z \in {w \in Ancestry(t) :
                                       x \in Ancestry(w) /\ DeclaresField(w, n)}}

\* C9: at all times every relation descriptor of every defined type's
\* resolved field set has that type as its source.
C9_SourceStaysOwnType ==
    \A c \in DOMAIN classes : \A n \in DOMAIN Fields(c) :
      IsForeign(objs[Fields(c)[n]]) => objs[Fields(c)[n]]._source_cls = c

\* C10: the counter read on each type equals the number of constructor
\* calls made on that type itself.
C10_CountIsOwnAttempts ==
    \A c \in DOMAIN classes : CountOn(classes, c) = attempts[c]

=============================================================================
